---------------------------- MODULE Spec2Model ----------------------------
(***************************************************************************)
(* A model of gfs-stats-go: the Fetch Orchestrator (cmd/download/main.go)  *)
(* and the Extraction & Aggregation Engine (cmd/ingest/main.go).           *)
(*                                                                         *)
(* Strings are sequences of one-character strings, so that the filename    *)
(* codec is computed the way the code computes it (Split, TrimPrefix,      *)
(* Atoi).  Times are whole hours since an epoch day 0, 00:00 UTC.          *)
(***************************************************************************)
EXTENDS Integers, Sequences, FiniteSets, TLC

VARIABLES
    \* Fetch Orchestrator (cmd/download/main.go)
    now,            \* time.Now().UTC() of the run, in hours
    pub,            \* the published directory ./gfs_data
    stage,          \* the staging directory tmpOutputDir
    jobs,           \* the jobs channel
    jobsClosed,
    results,        \* the results channel
    resultsClosed,
    wpc, whour, wattempt,     \* the download workers
    mpc,            \* where run() is
    sent,           \* jobs sent so far
    failed,         \* run's failed counter
    ret,            \* what run() returned
    seen,           \* what the Engine's last Glob of ./gfs_data returned
    before,         \* history: the published directory when the run began
    exhausted,      \* history: hours whose job failed after maxRetries attempts
    wlast,          \* lastErr of each worker's downloadWithRetry
    claims,         \* history: how often each forecast hour was received from jobs
    collected,      \* history: the results run() has received
    errs,           \* history: the non-nil results the workers have sent
    \* filename codec harness
    cpc, cname, cres,
    \* wind direction harness
    dpc, deg, dres, dres360,
    \* timestamp harness: a file is fetched, then resolved by the Engine
    tpc, tnow, thour, tcycle, tname, tquery, tstamp,
    \* Extraction & Aggregation Engine (cmd/ingest/main.go)
    idir,           \* the files of ./gfs_data and what the decoder prints for each
    inow,           \* time.Now() of the query, in hours
    ipc,            \* where Ingest is
    files,          \* the globbed, sorted file list
    inext,          \* the index of the next file the loop starts
    gpc, gdata, gread,      \* the extraction goroutines, by file index
    mu,             \* the mutex: 0, or the goroutine that holds it
    sem,            \* the tokens in the semaphore channel
    forecasts,
    output

fetchVars == <<now, pub, stage, jobs, jobsClosed, results, resultsClosed,
               wpc, whour, wattempt, mpc, sent, failed, ret, seen,
               before, exhausted, wlast, claims, collected, errs>>
codecVars == <<cpc, cname, cres>>
cardinalVars == <<dpc, deg, dres, dres360>>
stampVars == <<tpc, tnow, thour, tcycle, tname, tquery, tstamp>>
ingestVars == <<idir, inow, ipc, files, inext, gpc, gdata, gread, mu, sem,
                forecasts, output>>
vars == <<fetchVars, codecVars, cardinalVars, stampVars, ingestVars>>

\* what a step of one part leaves alone
notFetch == <<codecVars, cardinalVars, stampVars, ingestVars>>
notCodec == <<fetchVars, cardinalVars, stampVars, ingestVars>>
notCardinal == <<fetchVars, codecVars, stampVars, ingestVars>>
notStamp == <<fetchVars, codecVars, cardinalVars, ingestVars>>
notIngest == <<fetchVars, codecVars, cardinalVars, stampVars>>

(***************************************************************************)
(* Strings                                                                 *)
(***************************************************************************)
Digits == <<"0", "1", "2", "3", "4", "5", "6", "7", "8", "9">>

IsDigit(c) == \E i \in 1..10 : Digits[i] = c

DigitVal(c) == (CHOOSE i \in 1..10 : Digits[i] = c) - 1

\* two- and three-digit decimal literals, as they are written in the source
Dec2(n) == <<Digits[((n \div 10) % 10) + 1], Digits[(n % 10) + 1]>>
Dec3(n) == <<Digits[((n \div 100) % 10) + 1]>> \o Dec2(n)

\* strings.Split(s, ".")
RECURSIVE SplitDot(_)
SplitDot(s) ==
    IF \A i \in 1..Len(s) : s[i] # "."
    THEN <<s>>
    ELSE LET i == CHOOSE k \in 1..Len(s) :
                      s[k] = "." /\ \A j \in 1..(k - 1) : s[j] # "."
         IN  <<SubSeq(s, 1, i - 1)>> \o SplitDot(SubSeq(s, i + 1, Len(s)))

\* strings.TrimPrefix(s, p) and strings.TrimSuffix(s, p), p one character
TrimPrefix(s, p) == IF Len(s) >= 1 /\ s[1] = p THEN Tail(s) ELSE s
TrimSuffix(s, p) ==
    IF Len(s) >= 1 /\ s[Len(s)] = p THEN SubSeq(s, 1, Len(s) - 1) ELSE s

\* filepath.Base(path)
RECURSIVE StripSlashes(_)
StripSlashes(s) ==
    IF Len(s) > 0 /\ s[Len(s)] = "/"
    THEN StripSlashes(SubSeq(s, 1, Len(s) - 1))
    ELSE s

Base(path) ==
    IF Len(path) = 0 THEN <<".">>
    ELSE LET s == StripSlashes(path)
         IN  IF Len(s) = 0 THEN <<"/">>
             ELSE IF \A i \in 1..Len(s) : s[i] # "/" THEN s
             ELSE LET i == CHOOSE k \in 1..Len(s) :
                               s[k] = "/" /\ \A j \in (k + 1)..Len(s) : s[j] # "/"
                  IN  SubSeq(s, i + 1, Len(s))

\* the value of a string of decimal digits
RECURSIVE DecValue(_)
DecValue(s) ==
    IF Len(s) = 0 THEN 0
    ELSE 10 * DecValue(SubSeq(s, 1, Len(s) - 1)) + DigitVal(s[Len(s)])

\* strconv.Atoi(s): [val, ok]; ok is FALSE where Atoi returns an error, and the
\* value it returns with a syntax error is 0
Atoi(s) ==
    LET signed == Len(s) >= 1 /\ s[1] \in {"+", "-"}
        body   == IF signed THEN Tail(s) ELSE s
    IN  IF Len(body) = 0 \/ \E i \in 1..Len(body) : ~IsDigit(body[i])
        THEN [val |-> 0, ok |-> FALSE]
        ELSE [val |-> IF signed /\ s[1] = "-" THEN 0 - DecValue(body)
                      ELSE DecValue(body),
              ok  |-> TRUE]

(***************************************************************************)
(* Filename codec                                                          *)
(***************************************************************************)
resolution == <<"0", "p", "2", "5">>

\* fmt.Sprintf("gfs.t%sz.pgrb2.%s.f%s", cycle, resolution, hour)
Filename(cycle, hour) ==
    <<"g", "f", "s", ".", "t">> \o cycle \o
    <<"z", ".", "p", "g", "r", "b", "2", ".">> \o resolution \o
    <<".", "f">> \o hour

\* the directory the Orchestrator publishes into and the Engine globs,
\* as filepath.Join and filepath.Glob return its paths
outputDir == <<"g", "f", "s", "_", "d", "a", "t", "a">>
PathIn(dir, name) == dir \o <<"/">> \o name

\* the mutant reads the wrong dot-separated part
getForecastHourWrongPart(filename) ==
    LET parts == SplitDot(Base(filename))
    IN  IF Len(parts) < 5 THEN -1
        ELSE Atoi(TrimPrefix(parts[4], "f")).val

getForecastHour(filename) ==
    LET parts == SplitDot(Base(filename))
    IN  IF Len(parts) < 5 THEN -1
        ELSE Atoi(TrimPrefix(parts[5], "f")).val

\* the four daily cycle hours getCurrentCycle returns
CycleHours == {0, 6, 12, 18}

\* forecastHours is "000" .. "024"
LastForecastHour == 24


(***************************************************************************)
(* Fetch Orchestrator                                                      *)
(***************************************************************************)
maxParallel == 4
maxRetries == 3

\* a file must be larger than 1<<20 bytes to count as complete
MinSize == 1048576

\* the number of forecast hours of the list that the model keeps
NumHours == 2

\* forecastHours, cut to its first NumHours entries
forecastHours == [i \in 1..NumHours |-> Dec3(i - 1)]

Workers == 1..maxParallel

\* the sizes a copied body may have: exactly 1 MiB, more than 1 MiB
Sizes == {MinSize, MinSize + 1}

\* the size of the temp file a broken-off transfer leaves
PartialSize == MinSize

\* the wall-clock hour a run starts at: day 2 03:00, before the first
\* availability window of the day
RunClocks == {2 * 24 + 3}

\* the mutant takes a cycle from the hour it starts, not from the hour its
\* files are out
getCurrentCycleNoLag(t) ==
    LET hour == t % 24
        day  == t \div 24
    IN  IF hour >= 18 THEN [date |-> day, cycle |-> Dec2(18)]
        ELSE IF hour >= 12 THEN [date |-> day, cycle |-> Dec2(12)]
        ELSE IF hour >= 6 THEN [date |-> day, cycle |-> Dec2(6)]
        ELSE [date |-> day, cycle |-> Dec2(0)]

\* getCurrentCycle(): [date, cycle]; date is the day number that
\* now.Format("20060102") writes
getCurrentCycle(t) ==
    LET hour == t % 24
        day  == t \div 24
    IN  IF hour >= 23 THEN [date |-> day, cycle |-> Dec2(18)]
        ELSE IF hour >= 17 THEN [date |-> day, cycle |-> Dec2(12)]
        ELSE IF hour >= 11 THEN [date |-> day, cycle |-> Dec2(6)]
        ELSE IF hour >= 5 THEN [date |-> day, cycle |-> Dec2(0)]
        ELSE [date |-> (t - 24) \div 24, cycle |-> Dec2(18)]

\* directories: whether the directory exists, and its files; a file is its
\* name, what it holds (the remote product [date, cycle, hour] it was
\* fetched from) and its size
Absent == [exists |-> FALSE, files |-> {}]
EmptyDir == [exists |-> TRUE, files |-> {}]

HasFile(d, name) == \E f \in d.files : f.name = name
FileOf(d, name) == CHOOSE f \in d.files : f.name = name
RemoveFile(d, name) == [d EXCEPT !.files = {f \in @ : f.name # name}]
WriteFile(d, name, data, size) ==
    [d EXCEPT !.files = {f \in @ : f.name # name}
                        \cup {[name |-> name, data |-> data, size |-> size]}]

TmpSuffix == <<".", "t", "m", "p">>

\* the remote product downloadWithRetry builds the URL of
Product(cyc, hour) == [date |-> cyc.date, cycle |-> cyc.cycle, hour |-> hour]

\* the complete file set of a cycle
CycleFiles(cyc) ==
    {[name |-> Filename(cyc.cycle, forecastHours[i]),
      data |-> Product(cyc, forecastHours[i]),
      size |-> MinSize + 1] : i \in 1..NumHours}

\* the cycle before the one a run at t resolves
PreviousCycle(t) == getCurrentCycle(t - 6)

\* the mutant accepts a file of exactly 1 MiB
VerifiedAtLeast(size) == size >= MinSize

\* info.Size() > 1<<20
Verified(size) == size > MinSize

\* the mutant aborts only when more than one hour failed
AbortRunOverOne(n) == n > 1

\* if failed > 0 { return error }
AbortRun(n) == n > 0

\* filepath.Glob("./gfs_data/gfs.t*z.pgrb2.0p25.f*"): the files of the
\* published directory (all of its names match), none when it is missing
Glob(d) == IF d.exists THEN d.files ELSE {}

InitFetch ==
    /\ now \in RunClocks
    /\ pub \in {Absent,
                [exists |-> TRUE, files |-> CycleFiles(PreviousCycle(now))],
                [exists |-> TRUE, files |-> CycleFiles(getCurrentCycle(now))]}
    /\ stage = Absent
    /\ jobs = <<>>
    /\ jobsClosed = FALSE
    /\ results = <<>>
    /\ resultsClosed = FALSE
    /\ wpc = [w \in Workers |-> "recv"]
    /\ whour = [w \in Workers |-> <<>>]
    /\ wattempt = [w \in Workers |-> 0]
    /\ mpc = "setup"
    /\ sent = 0
    /\ failed = 0
    /\ ret = "none"
    /\ seen = Glob(pub)
    /\ before = pub
    /\ exhausted = {}
    /\ wlast = [w \in Workers |-> "none"]
    /\ claims = [i \in 1..NumHours |-> 0]
    /\ collected = 0
    /\ errs = 0

\* run() returns r; the deferred function removes the staging directory if
\* it still exists
Return(r, stageNow) ==
    /\ ret' = r
    /\ mpc' = "done"
    /\ stage' = IF stageNow.exists THEN Absent ELSE stageNow

\* os.MkdirAll, os.MkdirTemp, getCurrentCycle
CoordSetup ==
    /\ mpc = "setup"
    /\ \/ /\ stage' = EmptyDir
          /\ mpc' = "produce"
          /\ ret' = ret
       \/ Return("error", stage)
    /\ UNCHANGED <<now, pub, jobs, jobsClosed, results, resultsClosed, wpc,
                   whour, wattempt, sent, failed, seen, before,
                   exhausted,
                   wlast, claims, collected, errs>>

\* the mutant sends the first hour of the list every time round the loop
JobAtFirst(i) == forecastHours[1]

\* the hour the i-th pass of the loop over forecastHours sends
JobAt(i) == forecastHours[i]

\* the place of an hour in forecastHours
HourIndex(hour) == CHOOSE i \in 1..NumHours : forecastHours[i] = hour

\* for _, hour := range forecastHours { jobs <- hour }
CoordSendJob ==
    /\ mpc = "produce"
    /\ sent < NumHours
    /\ Len(jobs) < NumHours
    /\ jobs' = Append(jobs, JobAt(sent + 1))
    /\ sent' = sent + 1
    /\ UNCHANGED <<now, pub, stage, jobsClosed, results, resultsClosed, wpc,
                   whour, wattempt, mpc, failed, ret, seen, before,
                   exhausted,
                   wlast, claims, collected, errs>>

\* close(jobs); go func() { wg.Wait(); close(results) }()
CoordCloseJobs ==
    /\ mpc = "produce"
    /\ sent = NumHours
    /\ jobsClosed' = TRUE
    /\ mpc' = "drain"
    /\ UNCHANGED <<now, pub, stage, jobs, results, resultsClosed, wpc, whour,
                   wattempt, sent, failed, ret, seen, before, exhausted,
                   wlast, claims, collected, errs>>

\* the mutant closes results without waiting for the workers
AllReturnedNoWait == TRUE

\* the mutant's wait group never reaches zero: a worker returns without
\* wg.Done()
AllReturnedNever == FALSE

\* wg.Wait() returns: every worker has returned and called wg.Done()
AllReturned == \A w \in Workers : wpc[w] = "exit"

\* wg.Wait(); close(results)
CloseResults ==
    /\ mpc = "drain"
    /\ ~resultsClosed
    /\ AllReturned
    /\ resultsClosed' = TRUE
    /\ UNCHANGED <<now, pub, stage, jobs, jobsClosed, results, wpc, whour,
                   wattempt, mpc, sent, failed, ret, seen, before,
                   exhausted,
                   wlast, claims, collected, errs>>

\* results <- err: downloadWithRetry has returned err ("nil", "rename" for
\* "failed to rename temp file", "exhausted" for "failed after 3
\* attempts"), the worker sends it and is back at the range over jobs
SendResult(w, err) ==
    /\ Len(results) < NumHours
    /\ results' = Append(results, err)
    /\ errs' = IF err # "nil" THEN errs + 1 ELSE errs
    /\ wpc' = [wpc EXCEPT ![w] = "recv"]
    /\ whour' = [whour EXCEPT ![w] = <<>>]
    /\ wattempt' = [wattempt EXCEPT ![w] = 0]
    /\ wlast' = [wlast EXCEPT ![w] = "none"]

\* for hour := range jobs: a job is received (ctx is cancelled only by the
\* deferred cancel() of run(), so the select takes its default case);
\* downloadWithRetry starts, and returns nil at once if the staging directory
\* holds a verified file
WorkerRecv(w) ==
    /\ wpc[w] = "recv"
    /\ jobs # <<>>
    /\ jobs' = Tail(jobs)
    /\ claims' = [claims EXCEPT ![HourIndex(Head(jobs))] = @ + 1]
    /\ LET outputName == Filename(getCurrentCycle(now).cycle, Head(jobs))
       IN  IF HasFile(stage, outputName)
              /\ Verified(FileOf(stage, outputName).size)
           THEN SendResult(w, "nil")
           ELSE /\ wpc' = [wpc EXCEPT ![w] = "job"]
                /\ whour' = [whour EXCEPT ![w] = Head(jobs)]
                /\ wattempt' = [wattempt EXCEPT ![w] = 1]
                /\ UNCHANGED <<results, errs, wlast>>
    /\ UNCHANGED <<now, pub, stage, jobsClosed, resultsClosed, mpc, sent,
                   failed, ret, seen, before, exhausted, collected>>

\* the range over jobs ends: the worker returns, wg.Done()
WorkerExit(w) ==
    /\ wpc[w] = "recv"
    /\ jobs = <<>>
    /\ jobsClosed
    /\ wpc' = [wpc EXCEPT ![w] = "exit"]
    /\ UNCHANGED <<now, pub, stage, jobs, jobsClosed, results, resultsClosed,
                   whour, wattempt, mpc, sent, failed, ret, seen, before,
                   exhausted,
                   wlast, claims, collected, errs>>

\* the mutant's loop runs while attempt <= maxRetries + 1
MoreAttemptsOneTooMany(attempt) == attempt < maxRetries + 1

\* attempt++; attempt <= maxRetries
MoreAttempts(attempt) == attempt < maxRetries

\* what one failed attempt leads to: another attempt after retryDelay, or,
\* after maxRetries, os.Remove(tempPath) and the error
AttemptFailed(w, staged, tempName, kind) ==
    IF MoreAttempts(wattempt[w])
    THEN /\ wattempt' = [wattempt EXCEPT ![w] = @ + 1]
         /\ wlast' = [wlast EXCEPT ![w] = kind]
         /\ stage' = staged
         /\ UNCHANGED <<wpc, whour, results, exhausted, errs>>
    ELSE /\ stage' = RemoveFile(staged, tempName)
         /\ exhausted' = exhausted \cup {whour[w]}
         /\ SendResult(w, "exhausted")

\* one pass of downloadWithRetry's loop: downloadFile, the size check, the
\* rename into place
WorkerAttempt(w) ==
    /\ wpc[w] = "job"
    /\ LET cyc        == getCurrentCycle(now)
           outputName == Filename(cyc.cycle, whour[w])
           tempName   == outputName \o TmpSuffix
           data       == Product(cyc, whour[w])
       IN  \/ \* os.Create fails
              AttemptFailed(w, stage, tempName, "create")
           \/ \* the request fails, the status is not 200 or the copy
              \* breaks off: the temp file holds what was written
              AttemptFailed(w, WriteFile(stage, tempName, data, PartialSize),
                            tempName, "transfer")
           \/ \* the body is copied, and is too small
              \E s \in Sizes :
                  /\ ~Verified(s)
                  /\ AttemptFailed(w, WriteFile(stage, tempName, data, s),
                                   tempName, "small")
           \/ \* the body is copied and verified; os.Rename succeeds
              \E s \in Sizes :
                  /\ Verified(s)
                  /\ stage' = WriteFile(RemoveFile(stage, tempName),
                                        outputName, data, s)
                  /\ SendResult(w, "nil")
                  /\ UNCHANGED exhausted
           \/ \* the body is copied and verified; os.Rename fails
              \E s \in Sizes :
                  /\ Verified(s)
                  /\ stage' = RemoveFile(stage, tempName)
                  /\ SendResult(w, "rename")
                  /\ UNCHANGED exhausted
    /\ UNCHANGED <<now, pub, jobs, jobsClosed, resultsClosed, mpc, sent,
                   failed, ret, seen, before, claims, collected>>

\* for err := range results { if err != nil { failed++ } }
CoordRecv ==
    /\ mpc = "drain"
    /\ results # <<>>
    /\ results' = Tail(results)
    /\ failed' = IF Head(results) # "nil" THEN failed + 1 ELSE failed
    /\ collected' = collected + 1
    /\ UNCHANGED <<now, pub, stage, jobs, jobsClosed, resultsClosed, wpc,
                   whour, wattempt, mpc, sent, ret, seen, before,
                   exhausted, wlast, claims, errs>>

\* the range over results ends; the abort, or os.Stat(outputDir)
CoordDecide ==
    /\ mpc = "drain"
    /\ results = <<>>
    /\ resultsClosed
    /\ IF AbortRun(failed)
       THEN Return("error", stage)
       ELSE /\ mpc' = IF pub.exists THEN "remove" ELSE "rename"
            /\ UNCHANGED <<ret, stage>>
    /\ UNCHANGED <<now, pub, jobs, jobsClosed, results, resultsClosed, wpc,
                   whour, wattempt, sent, failed, seen, before,
                   exhausted,
                   wlast, claims, collected, errs>>

\* os.RemoveAll(outputDir) removes one entry, or the emptied directory
CoordRemoveStep ==
    /\ mpc = "remove"
    /\ IF pub.files # {}
       THEN /\ \E f \in pub.files : pub' = RemoveFile(pub, f.name)
            /\ mpc' = mpc
       ELSE /\ pub' = Absent
            /\ mpc' = "rename"
    /\ UNCHANGED <<now, stage, jobs, jobsClosed, results, resultsClosed, wpc,
                   whour, wattempt, sent, failed, ret, seen, before,
                   exhausted,
                   wlast, claims, collected, errs>>

\* os.RemoveAll(outputDir) returns an error
CoordRemoveFail ==
    /\ mpc = "remove"
    /\ Return("error", stage)
    /\ UNCHANGED <<now, pub, jobs, jobsClosed, results, resultsClosed, wpc,
                   whour, wattempt, sent, failed, seen, before,
                   exhausted,
                   wlast, claims, collected, errs>>

\* os.Rename(tmpOutputDir, outputDir)
CoordRename ==
    /\ mpc = "rename"
    /\ \/ /\ pub' = stage
          /\ Return("ok", Absent)
       \/ /\ pub' = pub
          /\ Return("error", stage)
    /\ UNCHANGED <<now, jobs, jobsClosed, results, resultsClosed, wpc, whour,
                   wattempt, sent, failed, seen, before, exhausted,
                   wlast, claims, collected, errs>>

\* an Engine query running beside the Orchestrator lists ./gfs_data
EngineGlob ==
    /\ seen' = Glob(pub)
    /\ UNCHANGED <<now, pub, stage, jobs, jobsClosed, results, resultsClosed,
                   wpc, whour, wattempt, mpc, sent, failed, ret, before,
                   exhausted,
                   wlast, claims, collected, errs>>

NextFetch ==
    \/ CoordSetup /\ UNCHANGED notFetch
    \/ CoordSendJob /\ UNCHANGED notFetch
    \/ CoordCloseJobs /\ UNCHANGED notFetch
    \/ CloseResults /\ UNCHANGED notFetch
    \/ \E w \in Workers : WorkerRecv(w) /\ UNCHANGED notFetch
    \/ \E w \in Workers : WorkerExit(w) /\ UNCHANGED notFetch
    \/ \E w \in Workers : WorkerAttempt(w) /\ UNCHANGED notFetch
    \/ CoordRecv /\ UNCHANGED notFetch
    \/ CoordDecide /\ UNCHANGED notFetch
    \/ CoordRemoveStep /\ UNCHANGED notFetch
    \/ CoordRemoveFail /\ UNCHANGED notFetch
    \/ CoordRename /\ UNCHANGED notFetch
    \/ EngineGlob /\ UNCHANGED notFetch

(***************************************************************************)
(* Filename codec harness: getForecastHour applied to one name             *)
(***************************************************************************)
IdleCodec == cpc = "idle" /\ cname = <<>> /\ cres = 0

\* the path of the file the Orchestrator writes for (cycle hour c, offset h)
Encoded(c, h) == PathIn(outputDir, Filename(Dec2(c), Dec3(h)))

EncodedNames == {Encoded(c, h) : c \in CycleHours, h \in 0..LastForecastHour}

GfsT00zPgrb2 ==
    <<"g", "f", "s", ".", "t", "0", "0", "z", ".", "p", "g", "r", "b", "2">>

\* names that do not follow <product>.t<cycleHour>z.<tier>.<resolution>.f<offset>
MalformedNames ==
    {PathIn(outputDir, n) : n \in
        {<<>>,
         <<"g", "f", "s">>,
         GfsT00zPgrb2,
         GfsT00zPgrb2 \o <<".">> \o resolution,
         Filename(Dec2(0), <<>>),
         Filename(Dec2(0), <<"a", "b", "c">>),
         Filename(Dec2(6), <<"0", "x", "1">>),
         Filename(Dec2(12), <<"-", "0", "1">>),
         Filename(Dec2(18), <<"+">>),
         GfsT00zPgrb2 \o <<".">> \o resolution \o <<".", "0", "0", "3">>,
         GfsT00zPgrb2 \o <<".">> \o resolution \o <<".", "x", "0", "3">>}}

\* whether a name follows the pattern: at least five dot-separated parts, the
\* fifth an f followed by decimal digits
FollowsPattern(path) ==
    LET parts == SplitDot(Base(path))
    IN  /\ Len(parts) >= 5
        /\ Len(parts[5]) >= 2
        /\ parts[5][1] = "f"
        /\ \A i \in 2..Len(parts[5]) : IsDigit(parts[5][i])

InitCodec ==
    /\ cpc = "call"
    /\ cname \in EncodedNames \cup MalformedNames
    /\ cres = 0

CodecCall ==
    /\ cpc = "call"
    /\ cres' = getForecastHour(cname)
    /\ cpc' = "done"
    /\ cname' = cname

NextCodec == CodecCall /\ UNCHANGED notCodec

(***************************************************************************)
(* Wind direction.  Degrees are counted in hundredths of a degree, in      *)
(* which 11.25, 22.5 and 360 are whole numbers.                            *)
(***************************************************************************)
directions ==
    <<"N", "NNE", "NE", "ENE", "E", "ESE", "SE", "SSE",
      "S", "SSW", "SW", "WSW", "W", "WNW", "NW", "NNW">>

FullTurn == 36000
HalfSector == 1125
Sector == 2250

\* Go's integer conversion truncates toward zero, and its % takes the sign of
\* the dividend
TruncDiv(a, b) == IF a >= 0 THEN a \div b ELSE 0 - ((0 - a) \div b)
GoMod(a, b) == a - b * TruncDiv(a, b)

\* for degrees < 0 { degrees += 360 }
RECURSIVE RaiseToZero(_)
RaiseToZero(d) == IF d < 0 THEN RaiseToZero(d + FullTurn) ELSE d

\* for degrees >= 360 { degrees -= 360 }
RECURSIVE LowerBelowTurn(_)
LowerBelowTurn(d) == IF d >= FullTurn THEN LowerBelowTurn(d - FullTurn) ELSE d

\* the mutant adds and subtracts 360 once instead of looping
NormalizeOnce(d) ==
    LET up == IF d < 0 THEN d + FullTurn ELSE d
    IN  IF up >= FullTurn THEN up - FullTurn ELSE up

Normalize(d) == LowerBelowTurn(RaiseToZero(d))

\* degreesToCardinal(degrees); an index outside the table panics
degreesToCardinal(d) ==
    LET index == GoMod(TruncDiv(Normalize(d) + HalfSector, Sector), 16)
    IN  IF index \in 0..15 THEN directions[index + 1] ELSE "panic"

\* the harness takes degrees at every quarter degree of MaxTurns turns either
\* side of zero
MaxTurns == 2
DegreeInputs ==
    {q * 25 : q \in (0 - MaxTurns * 1440)..((MaxTurns + 1) * 1440)}

IdleCardinal == dpc = "idle" /\ deg = 0 /\ dres = "" /\ dres360 = ""

InitCardinal ==
    /\ dpc = "call"
    /\ deg \in DegreeInputs
    /\ dres = ""
    /\ dres360 = ""

CardinalCall ==
    /\ dpc = "call"
    /\ dres' = degreesToCardinal(deg)
    /\ dres360' = degreesToCardinal(deg + FullTurn)
    /\ dpc' = "done"
    /\ deg' = deg

NextCardinal == CardinalCall /\ UNCHANGED notCardinal

(***************************************************************************)
(* Timestamps.  processGFSFile resolves a file's time from its name and    *)
(* the day of the query.                                                   *)
(***************************************************************************)
\* time.Parse("200601021504", today + cycleHour + "00"): the hour field takes
\* two digits, 00 to 23; anything else is an error
ParseCycleTime(today, cycleHour) ==
    IF /\ Len(cycleHour) = 2
       /\ \A i \in 1..2 : IsDigit(cycleHour[i])
       /\ DecValue(cycleHour) <= 23
    THEN [ok |-> TRUE, time |-> today * 24 + DecValue(cycleHour)]
    ELSE [ok |-> FALSE, time |-> 0]

\* processGFSFile, up to data.Timestamp; clock is time.Now() in hours
ResolveTimestamp(file, clock) ==
    LET parts == SplitDot(Base(file))
    IN  IF Len(parts) < 5 THEN [ok |-> FALSE, ts |-> 0]
        ELSE LET cycleTime == ParseCycleTime(clock \div 24,
                                  TrimSuffix(TrimPrefix(parts[2], "t"), "z"))
             IN  IF ~cycleTime.ok \/ getForecastHour(file) < 0
                 THEN [ok |-> FALSE, ts |-> 0]
                 ELSE [ok |-> TRUE,
                       ts |-> cycleTime.time + getForecastHour(file)]

\* the harness fetches at every hour of day 1 and queries up to MaxQueryDelay
\* hours later
MaxQueryDelay == 3
FetchClocks == 24..47

IdleStamp ==
    /\ tpc = "idle"
    /\ tnow = 0
    /\ thour = 0
    /\ tcycle = [date |-> 0, cycle |-> <<>>]
    /\ tname = <<>>
    /\ tquery = 0
    /\ tstamp = [ok |-> FALSE, ts |-> 0]

InitStamp ==
    /\ tpc = "fetch"
    /\ tnow \in FetchClocks
    /\ thour \in 0..LastForecastHour
    /\ tcycle = [date |-> 0, cycle |-> <<>>]
    /\ tname = <<>>
    /\ tquery = 0
    /\ tstamp = [ok |-> FALSE, ts |-> 0]

\* the Orchestrator resolves the cycle and writes the file of offset thour
StampFetch ==
    /\ tpc = "fetch"
    /\ tcycle' = getCurrentCycle(tnow)
    /\ tname' = PathIn(outputDir,
                       Filename(getCurrentCycle(tnow).cycle, Dec3(thour)))
    /\ tpc' = "query"
    /\ UNCHANGED <<tnow, thour, tquery, tstamp>>

\* the Engine resolves the file's timestamp at some later hour
StampQuery ==
    /\ tpc = "query"
    /\ \E d \in 0..MaxQueryDelay :
          /\ tquery' = tnow + d
          /\ tstamp' = ResolveTimestamp(tname, tnow + d)
    /\ tpc' = "done"
    /\ UNCHANGED <<tnow, thour, tcycle, tname>>

NextStamp ==
    \/ StampFetch /\ UNCHANGED notStamp
    \/ StampQuery /\ UNCHANGED notStamp

(***************************************************************************)
(* Extraction & Aggregation Engine.  Decoded values are counted in         *)
(* hundredths (kelvin, m/s); knots in units of 10^-7.                      *)
(***************************************************************************)
maxWorkers == 4

\* the largest directory the model takes
MaxFiles == 5

\* what wgrib2 | awk print for a file: whether wgrib2 exits with success, and
\* the lines; a line is a number or text that is no number
Printed(lines) == [exit |-> "ok", lines |-> lines]
DecoderFailed == [exit |-> "error", lines |-> <<>>]

Num(v) == [number |-> TRUE, val |-> v]
Text == [number |-> FALSE, val |-> 0]

\* strconv.ParseFloat(line, 64)
ParseFloat(line) ==
    IF line.number THEN [err |-> "nil", val |-> line.val]
    ELSE [err |-> "error", val |-> 0]

\* the files a published directory is drawn from: two cycles whose offsets
\* 006 and 000 meet at one hour, files the decoder fails on, names whose
\* cycle hour or offset is no valid number
IngestFiles ==
    {[name |-> PathIn(outputDir, Filename(Dec2(0), Dec3(6))),
      out  |-> Printed(<<Num(500), Num(29315), Num(0), Num(-300)>>)],
     [name |-> PathIn(outputDir, Filename(Dec2(6), Dec3(0))),
      out  |-> Printed(<<Num(700), Num(28015), Num(300), Num(0)>>)],
     [name |-> PathIn(outputDir, Filename(Dec2(0), Dec3(1))),
      out  |-> Printed(<<Num(900), Num(27315), Num(0), Num(400)>>)],
     [name |-> PathIn(outputDir, Filename(Dec2(0), Dec3(7))),
      out  |-> Printed(<<Num(500), Num(29315), Num(0)>>)],
     [name |-> PathIn(outputDir, Filename(Dec2(6), Dec3(2))),
      out  |-> Printed(<<Num(500), Text, Num(0), Num(-300)>>)],
     [name |-> PathIn(outputDir, Filename(Dec2(12), Dec3(3))),
      out  |-> DecoderFailed],
     [name |-> PathIn(outputDir, Filename(<<"9", "9">>, Dec3(4))),
      out  |-> Printed(<<Num(500), Num(29315), Num(0), Num(-300)>>)],
     [name |-> PathIn(outputDir, Filename(Dec2(0), <<"-", "0", "5">>)),
      out  |-> Printed(<<Num(500), Num(29315), Num(0), Num(-300)>>)]}

\* the day and hour the query runs at: day 3, 09:00
QueryClock == 3 * 24 + 9

\* processGFSFile(file, lon, lat): [err, data]
processGFSFile(f, clock) ==
    LET stamp == ResolveTimestamp(f.name, clock)
        lines == f.out.lines
        NoData == [Timestamp |-> 0, WindGust |-> 0, Temp2m |-> 0,
                   UWind10m |-> 0, VWind10m |-> 0]
    IN  IF \/ ~stamp.ok
           \/ f.out.exit # "ok"
           \/ Len(lines) < 4
           \/ \E i \in 1..4 : ParseFloat(lines[i]).err # "nil"
        THEN [err |-> "error", data |-> NoData]
        ELSE [err |-> "nil",
              data |-> [Timestamp |-> stamp.ts,
                        WindGust  |-> ParseFloat(lines[1]).val,
                        Temp2m    |-> ParseFloat(lines[2]).val,
                        UWind10m  |-> ParseFloat(lines[3]).val,
                        VWind10m  |-> ParseFloat(lines[4]).val]]

\* the permutations of a set, as sequences
RECURSIVE PermsOf(_)
PermsOf(S) ==
    IF S = {} THEN {<<>>}
    ELSE UNION {{<<x>> \o p : p \in PermsOf(S \ {x})} : x \in S}

\* sort.Slice by getForecastHour: sort.Slice is not stable, so every order
\* of the files that is ascending in the forecast hour may come out
SortedByHour(S) ==
    {p \in PermsOf(S) :
        \A i \in 1..(Len(p) - 1) :
            getForecastHour(p[i].name) <= getForecastHour(p[i + 1].name)}

\* sort.Slice by Timestamp, likewise
SortedByTimestamp(fs) ==
    {[i \in 1..Len(fs) |-> fs[p[i]]] : p \in
        {q \in PermsOf(1..Len(fs)) :
            \A i \in 1..(Len(q) - 1) :
                fs[q[i]].Timestamp <= fs[q[i + 1]].Timestamp}}

\* f.Timestamp.Format("2006-01-02 15:04") and time.Parse of it; the day
\* number stands for the date
FormatTime(ts) == [day |-> ts \div 24, hour |-> ts % 24, minute |-> 0]
ParseTime(key) == (key.day * 24 + key.hour) * 60 + key.minute

\* math.Sqrt, on the squares the decoded winds give
Sqrt(n) == CHOOSE r \in 0..n : r * r = n

\* math.Atan2(y, x) * 180 / math.Pi, on the axes
Atan2Degrees(y, x) ==
    IF y = 0 THEN (IF x > 0 THEN 0 ELSE -180)
    ELSE IF y > 0 THEN 90 ELSE -90

KnotsPerMs == 194384

\* one pass of the merge loop: a ForecastData becomes a ForecastOutput
Derive(f) ==
    LET windSpeed == Sqrt(f.UWind10m * f.UWind10m + f.VWind10m * f.VWind10m)
        windDirRaw == Atan2Degrees(0 - f.UWind10m, 0 - f.VWind10m)
        windDir == IF windDirRaw < 0 THEN windDirRaw + 360 ELSE windDirRaw
    IN  [Timestamp |-> FormatTime(f.Timestamp),
         TempC     |-> f.Temp2m - 27315,
         WindKt    |-> windSpeed * KnotsPerMs,
         GustKt    |-> f.WindGust * KnotsPerMs,
         Direction |-> degreesToCardinal(windDir * 100)]

\* timestampMap[timestampStr] = ForecastOutput{...}
MapPut(m, o) == {x \in m : x.Timestamp # o.Timestamp} \cup {o}

\* the merge loop over the sorted forecasts
RECURSIVE TimestampMap(_)
TimestampMap(fs) ==
    IF fs = <<>> THEN {}
    ELSE MapPut(TimestampMap(SubSeq(fs, 1, Len(fs) - 1)), Derive(fs[Len(fs)]))

\* the final sort.Slice by the parsed timestamp, of entries whose keys differ
RECURSIVE AscendingByTime(_)
AscendingByTime(m) ==
    IF m = {} THEN <<>>
    ELSE LET first == CHOOSE x \in m :
                          \A y \in m : ParseTime(x.Timestamp) <= ParseTime(y.Timestamp)
         IN  <<first>> \o AscendingByTime(m \ {first})

\* every forecast derived, in order, without the map
RECURSIVE DeriveAll(_)
DeriveAll(fs) ==
    IF fs = <<>> THEN <<>> ELSE <<Derive(Head(fs))>> \o DeriveAll(Tail(fs))

\* the mutant returns them as they are
MergeOutputNoMap(fs) == DeriveAll(fs)

\* lines 121-168: the map, flattened and sorted
MergeOutput(fs) == AscendingByTime(TimestampMap(fs))

\* the mutant's lock excludes nobody
MutexAlwaysFree(holder) == TRUE

\* mu.Lock() goes through when nobody holds the mutex
MutexFree(holder) == holder = 0

NoForecast == [Timestamp |-> 0, WindGust |-> 0, Temp2m |-> 0,
               UWind10m |-> 0, VWind10m |-> 0]

IdleIngest ==
    /\ idir = {}
    /\ inow = 0
    /\ ipc = "idle"
    /\ files = <<>>
    /\ inext = 0
    /\ gpc = <<>>
    /\ gdata = <<>>
    /\ gread = <<>>
    /\ mu = 0
    /\ sem = 0
    /\ forecasts = <<>>
    /\ output = <<>>

InitIngest ==
    /\ idir \in {d \in SUBSET IngestFiles : Cardinality(d) <= MaxFiles}
    /\ inow = QueryClock
    /\ ipc = "glob"
    /\ files = <<>>
    /\ inext = 0
    /\ gpc = <<>>
    /\ gdata = <<>>
    /\ gread = <<>>
    /\ mu = 0
    /\ sem = 0
    /\ forecasts = <<>>
    /\ output = <<>>

\* filepath.Glob, sort.Slice by forecast hour
IngestDiscover ==
    /\ ipc = "glob"
    /\ \E p \in SortedByHour(idir) :
          /\ files' = p
          /\ gpc' = [i \in 1..Len(p) |-> "new"]
          /\ gdata' = [i \in 1..Len(p) |-> NoForecast]
          /\ gread' = [i \in 1..Len(p) |-> <<>>]
    /\ inext' = 1
    /\ ipc' = "loop"
    /\ UNCHANGED <<idir, inow, mu, sem, forecasts, output>>

\* the mutant's semaphore channel never fills
SemAlwaysRoom(n) == TRUE

\* sem <- struct{}{} goes through while the channel of capacity maxWorkers
\* holds fewer than maxWorkers tokens
SemHasRoom(n) == n < maxWorkers

\* one pass of the loop over files: wg.Add(1), sem <- struct{}{}, go func
IngestSpawn ==
    /\ ipc = "loop"
    /\ inext <= Len(files)
    /\ SemHasRoom(sem)
    /\ sem' = sem + 1
    /\ gpc' = [gpc EXCEPT ![inext] = "process"]
    /\ inext' = inext + 1
    /\ UNCHANGED <<idir, inow, ipc, files, gdata, gread, mu, forecasts,
                   output>>

\* the goroutine runs processGFSFile; on an error it logs and returns, which
\* releases the semaphore and the wait group
ExtractFile(i) ==
    /\ i \in DOMAIN gpc
    /\ gpc[i] = "process"
    /\ LET r == processGFSFile(files[i], inow)
       IN  IF r.err # "nil"
           THEN /\ gpc' = [gpc EXCEPT ![i] = "done"]
                /\ sem' = sem - 1
                /\ gdata' = gdata
           ELSE /\ gpc' = [gpc EXCEPT ![i] = "lock"]
                /\ gdata' = [gdata EXCEPT ![i] = r.data]
                /\ sem' = sem
    /\ UNCHANGED <<idir, inow, ipc, files, inext, gread, mu, forecasts,
                   output>>

\* mu.Lock(); append reads the slice
ExtractLock(i) ==
    /\ i \in DOMAIN gpc
    /\ gpc[i] = "lock"
    /\ MutexFree(mu)
    /\ mu' = i
    /\ gread' = [gread EXCEPT ![i] = forecasts]
    /\ gpc' = [gpc EXCEPT ![i] = "store"]
    /\ UNCHANGED <<idir, inow, ipc, files, inext, gdata, sem, forecasts,
                   output>>

\* forecasts = append(forecasts, data); mu.Unlock(); the goroutine returns
ExtractStore(i) ==
    /\ i \in DOMAIN gpc
    /\ gpc[i] = "store"
    /\ forecasts' = Append(gread[i], gdata[i])
    /\ mu' = 0
    /\ gread' = [gread EXCEPT ![i] = <<>>]
    /\ gdata' = [gdata EXCEPT ![i] = NoForecast]
    /\ gpc' = [gpc EXCEPT ![i] = "done"]
    /\ sem' = sem - 1
    /\ UNCHANGED <<idir, inow, ipc, files, inext, output>>

\* wg.Wait() returns; the forecasts are sorted by timestamp, merged by
\* timestamp, and the map is flattened and sorted
IngestFinish ==
    /\ ipc = "loop"
    /\ inext > Len(files)
    /\ \A i \in DOMAIN gpc : gpc[i] = "done"
    /\ \E sorted \in SortedByTimestamp(forecasts) :
          /\ forecasts' = sorted
          /\ output' = MergeOutput(sorted)
    /\ ipc' = "done"
    /\ UNCHANGED <<idir, inow, files, inext, gpc, gdata, gread, mu, sem>>

NextIngest ==
    \/ IngestDiscover /\ UNCHANGED notIngest
    \/ IngestSpawn /\ UNCHANGED notIngest
    \/ \E i \in 1..MaxFiles : ExtractFile(i) /\ UNCHANGED notIngest
    \/ \E i \in 1..MaxFiles : ExtractLock(i) /\ UNCHANGED notIngest
    \/ \E i \in 1..MaxFiles : ExtractStore(i) /\ UNCHANGED notIngest
    \/ IngestFinish /\ UNCHANGED notIngest

(***************************************************************************)
(* Specifications                                                          *)
(***************************************************************************)
IdleFetch ==
    /\ now = 0
    /\ pub = Absent
    /\ stage = Absent
    /\ jobs = <<>>
    /\ jobsClosed = FALSE
    /\ results = <<>>
    /\ resultsClosed = FALSE
    /\ wpc = [w \in Workers |-> "exit"]
    /\ whour = [w \in Workers |-> <<>>]
    /\ wattempt = [w \in Workers |-> 0]
    /\ mpc = "idle"
    /\ sent = 0
    /\ failed = 0
    /\ ret = "none"
    /\ seen = {}
    /\ before = Absent
    /\ exhausted = {}
    /\ wlast = [w \in Workers |-> "none"]
    /\ claims = [i \in 1..NumHours |-> 0]
    /\ collected = 0
    /\ errs = 0

InitSpec == InitFetch /\ IdleCodec /\ IdleCardinal /\ IdleStamp /\ IdleIngest
InitSpecCodec ==
    InitCodec /\ IdleFetch /\ IdleCardinal /\ IdleStamp /\ IdleIngest
InitSpecCardinal ==
    InitCardinal /\ IdleFetch /\ IdleCodec /\ IdleStamp /\ IdleIngest
InitSpecStamp ==
    InitStamp /\ IdleFetch /\ IdleCodec /\ IdleCardinal /\ IdleIngest
InitSpecIngest ==
    InitIngest /\ IdleFetch /\ IdleCodec /\ IdleCardinal /\ IdleStamp

\* one run of the Fetch Orchestrator, an Engine listing the directory beside it
Spec == InitSpec /\ [][NextFetch]_vars

\* a step of run() or of one of its goroutines
RunStep ==
    \/ CoordSetup
    \/ CoordSendJob
    \/ CoordCloseJobs
    \/ CloseResults
    \/ \E w \in Workers : WorkerRecv(w)
    \/ \E w \in Workers : WorkerExit(w)
    \/ \E w \in Workers : WorkerAttempt(w)
    \/ CoordRecv
    \/ CoordDecide
    \/ CoordRemoveStep
    \/ CoordRemoveFail
    \/ CoordRename

\* the same run under a scheduler that does not stop while a goroutine of
\* the run can take a step, every call of an attempt returning
FairSpec == Spec /\ WF_vars(RunStep /\ UNCHANGED notFetch)

\* one run of either program: the Orchestrator, or an Engine query
InitSpecPools ==
    /\ \/ InitFetch /\ IdleIngest
       \/ IdleFetch /\ InitIngest
    /\ IdleCodec /\ IdleCardinal /\ IdleStamp

NextPools == NextFetch \/ NextIngest

SpecPools == InitSpecPools /\ [][NextPools]_vars

\* getForecastHour on one name
SpecCodec == InitSpecCodec /\ [][NextCodec]_vars

\* degreesToCardinal on one value
SpecCardinal == InitSpecCardinal /\ [][NextCardinal]_vars

\* a file fetched at one hour and resolved by the Engine at a later one
SpecStamp == InitSpecStamp /\ [][NextStamp]_vars

\* one Engine query over a published directory
SpecIngest == InitSpecIngest /\ [][NextIngest]_vars

(***************************************************************************)
(* Claims: Fetch Orchestrator                                              *)
(***************************************************************************)
\* the file set a run publishes: one file per forecast hour, named for the
\* cycle the run resolved and holding that cycle's product
NewCycleNames ==
    {Filename(getCurrentCycle(now).cycle, forecastHours[i]) : i \in 1..NumHours}

\* C1: when a job of the run failed after exhausting its retries, the run
\* returns an error and the published directory is what it was before the run.
C1_FailureAtomic ==
    (mpc = "done" /\ exhausted # {}) => (ret = "error" /\ pub = before)

\* C1 witness: a run over an existing published directory in which one hour
\* was exhausted and the other succeeded has returned.
C1_Witness ==
    /\ mpc = "done"
    /\ ret = "error"
    /\ Cardinality(exhausted) = 1
    /\ failed = 1
    /\ before.exists

\* C2: whatever an Engine query lists, at any moment of a run, is the whole
\* old file set or the whole new one.
C2_AllOrNothing ==
    seen \in {Glob(before), CycleFiles(getCurrentCycle(now))}

\* C3: after a successful run the published directory holds exactly one
\* file per forecast hour, each larger than 1 MiB, named for the resolved
\* cycle and holding its product, and nothing else.
C3_SuccessComplete ==
    ret = "ok" =>
        /\ pub.exists
        /\ {f.name : f \in pub.files} = NewCycleNames
        /\ Cardinality(pub.files) = NumHours
        /\ \A f \in pub.files :
              /\ f.size > MinSize
              /\ \E i \in 1..NumHours :
                    /\ f.name = Filename(getCurrentCycle(now).cycle,
                                         forecastHours[i])
                    /\ f.data = Product(getCurrentCycle(now), forecastHours[i])

\* C3 witness: a run has succeeded and replaced an older published set.
C3_Witness ==
    /\ ret = "ok"
    /\ before.exists
    /\ pub # before

(***************************************************************************)
(* Claims: Extraction & Aggregation Engine                                 *)
(***************************************************************************)
\* the files of the directory that processGFSFile returns data for
Extracted == {f \in idir : processGFSFile(f, inow).err = "nil"}

SampleOf(f) == processGFSFile(f, inow).data

\* C4: the sequence Ingest returns is strictly ascending by timestamp.
C4_StrictlyAscending ==
    ipc = "done" =>
        \A i, j \in 1..Len(output) :
            i < j => ParseTime(output[i].Timestamp) < ParseTime(output[j].Timestamp)

\* C4 witness: a query has returned several points after merging two
\* forecasts of one timestamp.
C4_Witness ==
    /\ ipc = "done"
    /\ Len(output) >= 2
    /\ Len(forecasts) > Len(output)

\* C5: of two files with distinct offsets that resolve to one timestamp and
\* both extract, the output point is the one of the larger offset.
C5_LargerOffsetWins ==
    ipc = "done" =>
        \A a, b \in Extracted :
            (/\ getForecastHour(a.name) < getForecastHour(b.name)
             /\ SampleOf(a).Timestamp = SampleOf(b).Timestamp)
            => \E i \in 1..Len(output) : output[i] = Derive(SampleOf(b))

\* C6: a query returns a point for exactly the timestamps of the files that
\* extract, each sample appended once, whichever files fail; with no files
\* it returns the empty sequence.
C6_GracefulDegradation ==
    ipc = "done" =>
        /\ {output[i].Timestamp : i \in 1..Len(output)}
               = {FormatTime(SampleOf(f).Timestamp) : f \in Extracted}
        /\ {forecasts[i] : i \in 1..Len(forecasts)}
               = {SampleOf(f) : f \in Extracted}
        /\ Len(forecasts) = Cardinality(Extracted)
        /\ (idir = {} => output = <<>>)

\* C6 witness: a query over a full directory in which some files fail and
\* three extract has returned.
C6_Witness ==
    /\ ipc = "done"
    /\ Cardinality(idir) = MaxFiles
    /\ Cardinality(Extracted) = 3
    /\ Len(output) = 2

(***************************************************************************)
(* Claims: filename codec                                                  *)
(***************************************************************************)
\* C8: getForecastHour of the name encoded for (cycle hour, offset) is the
\* offset.
C8_RoundTrip ==
    \A c \in CycleHours, h \in 0..LastForecastHour :
        (cpc = "done" /\ cname = Encoded(c, h)) => cres = h

\* C8 witness: the name of cycle 18, offset 024 has been decoded.
C8_Witness == cpc = "done" /\ cname = Encoded(18, 24) /\ cres = 24

\* C9: getForecastHour of a name that does not follow the pattern is the
\* negative sentinel.
C9_Sentinel ==
    (cpc = "done" /\ ~FollowsPattern(cname)) => cres < 0


(***************************************************************************)
(* Claims: timestamps and wind direction                                   *)
(***************************************************************************)
\* C7: the timestamp the Engine gives a published file is its cycle date at
\* its cycle hour plus its offset, whatever the day of the query.
C7_CyclePlusOffset ==
    tpc = "done" =>
        /\ tstamp.ok
        /\ tstamp.ts = tcycle.date * 24 + DecValue(tcycle.cycle) + thour

OutputName(hour) == Filename(getCurrentCycle(now).cycle, hour)
TempName(hour) == OutputName(hour) \o TmpSuffix

\* C11: a worker is never in the download loop for an hour whose file in
\* the published directory is larger than 1 MiB.
C11_SkipPublished ==
    \A w \in Workers :
        wpc[w] = "job" =>
            ~(/\ HasFile(pub, OutputName(whour[w]))
              /\ FileOf(pub, OutputName(whour[w])).size > MinSize)

\* C12: no worker goes on to a further attempt of its job after an attempt in
\* which os.Create failed.
C12_FilesystemNotRetried ==
    \A w \in Workers : wlast[w] = "create" => wpc[w] # "job"

\* the result the worker of this step has sent
Sent == results'[Len(results')]

\* w's downloadWithRetry returns in this step
Returns(w) == wpc[w] = "job" /\ wpc'[w] = "recv"

\* C13 as stated: downloadWithRetry returns an error only from its third
\* attempt.
C13_FailureOnlyAfterThree ==
    [][\A w \in Workers :
          (Returns(w) /\ Sent # "nil") => wattempt[w] = maxRetries]_vars

\* C13, amended: no call makes more than 3 attempts; a further attempt is the
\* next one and follows a failed one; a call that returns nil has put a file
\* larger than 1 MiB in place; a call returns an error only from its third
\* attempt or when the rename of a verified temp file failed, and then no
\* temp file of the hour is left in the staging directory.
C13_BoundedRetry ==
    [][\A w \in Workers :
          /\ wattempt'[w] <= maxRetries
          /\ (wpc[w] = "job" /\ wpc'[w] = "job" /\ wattempt'[w] # wattempt[w])
             => /\ wattempt'[w] = wattempt[w] + 1
                /\ wlast'[w] \in {"create", "transfer", "small"}
          /\ (Returns(w) /\ Sent = "nil")
             => /\ HasFile(stage', OutputName(whour[w]))
                /\ FileOf(stage', OutputName(whour[w])).size > MinSize
          /\ (Returns(w) /\ Sent # "nil")
             => /\ wattempt[w] = maxRetries \/ Sent = "rename"
                /\ Sent = "exhausted" <=> whour[w] \in exhausted'
                /\ ~HasFile(stage', TempName(whour[w]))]_vars

\* C13 witness: one call has failed after its third attempt and another on
\* the rename, and both errors wait in results.
C13_Witness ==
    /\ \E i \in 1..Len(results) : results[i] = "exhausted"
    /\ \E i \in 1..Len(results) : results[i] = "rename"

\* the forecast hours received from jobs so far
Claimed == {i \in 1..NumHours : claims[i] > 0}

\* the downloads in flight
InFlight == {w \in Workers : wpc[w] = "job"}

\* C14: no forecast hour is received from jobs twice; every hour received is
\* in flight, waits in results or was collected, once each; and when the
\* range over results ends, every hour was received and run() has collected
\* one result per hour.
C14_ExclusiveOwnership ==
    /\ \A i \in 1..NumHours : claims[i] <= 1
    /\ \A v, w \in InFlight : whour[v] = whour[w] => v = w
    /\ Cardinality(Claimed)
         = Cardinality(InFlight) + Len(results) + collected
    /\ (resultsClosed /\ results = <<>>)
       => /\ Claimed = 1..NumHours
          /\ collected = NumHours

\* C14 witness: the run is over, every hour was received once and its result
\* collected, one of them an error.
C14_Witness ==
    /\ mpc = "done"
    /\ \A i \in 1..NumHours : claims[i] = 1
    /\ collected = NumHours
    /\ failed = 1

\* run() is past the range over results
Decided == mpc \in {"remove", "rename"} \/ (mpc = "done" /\ jobsClosed)

\* C15: results is closed only when every worker has returned, and run() is
\* past its publish-or-abort decision only when results is closed and empty,
\* no download is in flight and failed counts the errors the workers sent.
C15_JoinBeforeDecision ==
    /\ resultsClosed => \A w \in Workers : wpc[w] = "exit"
    /\ Decided
       => /\ resultsClosed
          /\ results = <<>>
          /\ \A w \in Workers : wpc[w] = "exit"
          /\ failed = errs

\* C15 witness: run() has aborted on a count of two errors.
C15_Witness ==
    /\ mpc = "done"
    /\ ret = "error"
    /\ resultsClosed
    /\ failed = 2
    /\ errs = 2

\* the extraction goroutines that hold a token of the semaphore
Extracting == {i \in DOMAIN gpc : gpc[i] \in {"process", "lock", "store"}}

C17_CycleStepFunction ==
    tpc \in {"query", "done"} =>
        LET h     == tnow % 24
            today == tnow \div 24
            start == tcycle.date * 24 + DecValue(tcycle.cycle)
        IN  /\ h = 23 => tcycle = [date |-> today, cycle |-> <<"1", "8">>]
            /\ h \in 17..22 => tcycle = [date |-> today, cycle |-> <<"1", "2">>]
            /\ h \in 11..16 => tcycle = [date |-> today, cycle |-> <<"0", "6">>]
            /\ h \in 5..10 => tcycle = [date |-> today, cycle |-> <<"0", "0">>]
            /\ h \in 0..4
               => tcycle = [date |-> today - 1, cycle |-> <<"1", "8">>]
            /\ start <= tnow
            /\ tnow - start \in 5..10

\* C17 witness: a run at 04:00 has resolved the 18 cycle of the day before.
C17_Witness ==
    /\ tpc = "done"
    /\ tnow = 24 + 4
    /\ tcycle = [date |-> 0, cycle |-> <<"1", "8">>]

\* what Ingest returns when the goroutines append in the order of the file
\* list
ReferenceOutput ==
    LET p    == CHOOSE q \in SortedByHour(idir) : TRUE
        good == SelectSeq(p, LAMBDA f : processGFSFile(f, inow).err = "nil")
        fs   == [i \in 1..Len(good) |-> processGFSFile(good[i], inow).data]
    IN  MergeOutput(CHOOSE sorted \in SortedByTimestamp(fs) : TRUE)

\* C18: whatever the order the extraction goroutines finish in, Ingest
\* returns the sequence it returns when they finish in file order.
C18_Deterministic ==
    ipc = "done" => output = ReferenceOutput

\* C19: when the run has returned an error, the published directory is what
\* it was before the run.
C19_NoDataLoss ==
    (mpc = "done" /\ ret = "error") => pub = before

\* C20: every run ends: run() returns, no worker is left at a channel, and
\* from then on no staging directory exists.
C20_Terminates ==
    <>[](/\ mpc = "done"
         /\ ~stage.exists
         /\ jobsClosed => \A w \in Workers : wpc[w] = "exit")

\* C20 witness: a run that retried has returned, its workers gone.
C20_Witness ==
    /\ mpc = "done"
    /\ exhausted # {}
    /\ \A w \in Workers : wpc[w] = "exit"
    /\ ~stage.exists

=============================================================================
